---- MODULE Spec2Model ----
(***************************************************************************)
(* A model of the argparse::ArgParse registry of src/src/arg-parse.cpp:    *)
(* the token classifier mapParamType, the definition calls add(Arg) and    *)
(* add(Flag), the indexed lookups operator[] and the parse loop.           *)
(*                                                                         *)
(* A std::string is a sequence of one-character strings.  A Flag* is the   *)
(* key of the pointed-to node of the std::map _flags (the nodes of a       *)
(* std::map never move), or NullPtr.  An Arg* is the 0-based index of the  *)
(* element of the std::vector _args.  The description strings and the      *)
(* callbacks of the definitions are left out: no operation modelled here   *)
(* reads them.                                                             *)
(***************************************************************************)
EXTENDS Integers, Sequences, FiniteSets, TLC

VARIABLES
    _flags,        \* std::map<std::string, Flag>: key -> Flag
    _longFlags,    \* std::map<std::string, Flag*>: long form -> key or NullPtr
    _shortFlags,   \* std::map<std::string, Flag*>: short form -> key or NullPtr
    _args,         \* std::vector<Arg>
    _errors,       \* std::vector<ArgError>
    programName,   \* options.programName.value
    _areThereAny,  \* the four _areThereAny... members
    pc,            \* "idle", "loop" (inside the loop of parse), "crashed"
    argv,          \* parse: the argument vector (argv_[0] first)
    adv,           \* parse: the loop cursor (0-based)
    argCount,      \* parse: positional tokens seen so far
    requiredArgs,  \* parse: required positionals still unbound
    tok,           \* the token the classifier was last applied to
    shape,         \* the ParamType it returned
    last,          \* the last define or lookup call and the reference it returned
    result,        \* what the last completed parse returned
    ops,           \* number of calls made so far
    given          \* number of tokens handed to parse so far

vars == <<_flags, _longFlags, _shortFlags, _args, _errors, programName,
          _areThereAny, pc, argv, adv, argCount, requiredArgs, tok, shape,
          last, result, ops, given>>

(***************************************************************************)
(* Bounds.                                                                 *)
(***************************************************************************)
\* calls (define, lookup, parse) in one run
MaxOps == 3
\* tokens handed to parse in one run, over all its calls
MaxTokens == 2
\* length of the tokens the classifier is applied to on its own
MaxLen == 4

(***************************************************************************)
(* Strings.                                                                *)
(***************************************************************************)
Chars == {"-", "=", "x", "y"}

RECURSIVE StringsUpTo(_)
StringsUpTo(n) ==
    IF n = 0 THEN {<<>>}
    ELSE LET S == StringsUpTo(n - 1)
         IN  S \cup {Append(s, c) : s \in {t \in S : Len(t) = n - 1}, c \in Chars}

\* every non-empty token of length <= MaxLen over Chars
ClassifierTokens == StringsUpTo(MaxLen) \ {<<>>}

\* std::string::find of one character: the 1-based position of its first
\* occurrence, 0 for npos
RECURSIVE FindFrom(_, _, _)
FindFrom(s, c, i) ==
    IF i > Len(s) THEN 0
    ELSE IF s[i] = c THEN i
    ELSE FindFrom(s, c, i + 1)

Find(s, c) == FindFrom(s, c, 1)

\* s.substr(0, n) and s.substr(n) for a 0-based n <= s.size()
Prefix(s, n) == SubSeq(s, 1, IF n < Len(s) THEN n ELSE Len(s))
Suffix(s, n) == SubSeq(s, n + 1, Len(s))

NullPtr == <<"nullptr">>
Garbage == <<"garbage">>
\* a reference to an element of _args
ArgRef == <<"arg">>
\* the suspect of an error that has none (nullptr)
NoSuspect == -1

(***************************************************************************)
(* The classifier.                                                         *)
(***************************************************************************)
ArgType == "ArgType"
ShortFlagType == "ShortFlagType"
ShortFlagsType == "ShortFlagsType"
LongFlagWithEqType == "LongFlagWithEqType"
LongFlagWithoutEqType == "LongFlagWithoutEqType"

ParamType == {ArgType, ShortFlagType, ShortFlagsType, LongFlagWithEqType,
              LongFlagWithoutEqType}

\* s[i] for a 0-based i; s[s.size()] is the terminating '\0'
CharAt(s, i) == IF i < Len(s) THEN s[i + 1] ELSE "\\0"

\* assert(arg.size()) of mapParamType
mapParamTypeAsserts(arg) == Len(arg) = 0

\* a plausible slip: the test for the token "--" left out
mapParamType_NoDashDash(arg) ==
    IF Len(arg) = 1 \/ CharAt(arg, 0) # "-"
    THEN ArgType
    ELSE IF Len(arg) = 2
    THEN ShortFlagType
    ELSE IF CharAt(arg, 1) # "-"
    THEN ShortFlagsType
    ELSE IF Find(arg, "=") # 0
    THEN LongFlagWithEqType
    ELSE LongFlagWithoutEqType

\* what mapParamType returns when its first assertion does not stop it
mapParamType(arg) ==
    IF Len(arg) = 1 \/ CharAt(arg, 0) # "-"
          \/ (Len(arg) = 2 /\ CharAt(arg, 1) = "-")
    THEN ArgType
    ELSE IF Len(arg) = 2
    THEN ShortFlagType
    ELSE IF CharAt(arg, 1) # "-"
    THEN ShortFlagsType
    ELSE IF Find(arg, "=") # 0
    THEN LongFlagWithEqType
    ELSE LongFlagWithoutEqType

(***************************************************************************)
(* The data model: Value, Flag, Arg.                                       *)
(***************************************************************************)
\* Value::Value(defaultValue, name, description)
Value(defaultValue) ==
    [str |-> defaultValue, _isValueNeeded |-> (defaultValue = <<>>)]

\* Flag::Flag(lFlag, sFlag, dscrptn)
Flag(lFlag, sFlag) ==
    [isSet |-> FALSE, hasValue |-> FALSE, value |-> Value(<<>>),
     _longFlag |-> lFlag, _shortFlag |-> sFlag]

\* Flag::Flag(lFlag, sFlag, dscrptn, definedValue)
FlagWithValue(lFlag, sFlag, definedValue) ==
    [Flag(lFlag, sFlag) EXCEPT !.value = definedValue, !.hasValue = TRUE]

\* Arg::Arg(name, description, isNeeded, defaultValue)
Arg(name, isNeeded, defaultValue) ==
    [str |-> defaultValue.str, _name |-> name,
     _isValueNeeded |-> (defaultValue.str = <<>>),
     isSet |-> FALSE, _isArgNeeded |-> isNeeded]

\* Arg::setArg: binds the token's text to the positional and marks it set
setArg(arg, paramStr) == [arg EXCEPT !.str = paramStr, !.isSet = TRUE]

(***************************************************************************)
(* The registry as one value: the members of ArgParse and, while parse     *)
(* runs, its locals.                                                       *)
(***************************************************************************)
EmptyMap == [k \in {} |-> NullPtr]

Put(map, key, val) ==
    (key :> val) @@ map

NoneSeen ==
    [undefinedArgs |-> FALSE, definedArgs |-> FALSE,
     undefinedFlags |-> FALSE, definedFlags |-> FALSE]

\* ArgParse::ArgParse with an empty option list
Constructed ==
    [flags |-> EmptyMap, longFlags |-> EmptyMap, shortFlags |-> EmptyMap,
     args |-> <<>>, errors |-> <<>>, programName |-> <<>>, any |-> NoneSeen,
     pc |-> "idle", argv |-> <<>>, adv |-> 0, argCount |-> 0,
     requiredArgs |-> 0, tok |-> <<>>, shape |-> "none", result |-> "none"]

\* no call made yet: no reference returned
NoCall ==
    [op |-> "none", name |-> <<>>, ptr |-> NullPtr, idx |-> NoSuspect,
     fresh |-> FALSE]

Machine ==
    [flags |-> _flags, longFlags |-> _longFlags, shortFlags |-> _shortFlags,
     args |-> _args, errors |-> _errors, programName |-> programName,
     any |-> _areThereAny,
     pc |-> pc, argv |-> argv, adv |-> adv, argCount |-> argCount,
     requiredArgs |-> requiredArgs, tok |-> tok, shape |-> shape,
     result |-> result]

\* the members of the object alone
Members(m) ==
    [flags |-> m.flags, longFlags |-> m.longFlags, shortFlags |-> m.shortFlags,
     args |-> m.args, errors |-> m.errors, programName |-> m.programName,
     any |-> m.any]

\* the process is gone: a failed assertion, or a fault on an invalid access
Crashed(m) == [m EXCEPT !.pc = "crashed"]

(***************************************************************************)
(* Definition calls.                                                       *)
(***************************************************************************)
\* ArgParse::add(const Arg&): the new element's index is returned
addArg(m, arg) ==
    [m |-> [m EXCEPT !.args = Append(@, arg)], ptr |-> Len(m.args)]

\* a plausible slip: the short-form table is not refreshed
addFlag_NoShortTable(m, flag) ==
    LET name == flag._shortFlag \o flag._longFlag
    IN  IF name = <<>>
        THEN [m |-> [m EXCEPT !.flags =
                        IF <<>> \in DOMAIN @ THEN @
                        ELSE Put(@, <<>>, Flag(<<>>, <<>>))],
              ptr |-> <<>>]
        ELSE [m |-> [m EXCEPT
                        !.flags = Put(@, name, flag),
                        !.longFlags = IF flag._longFlag # <<>>
                                      THEN Put(@, flag._longFlag, name)
                                      ELSE @],
              ptr |-> name]

\* ArgParse::add(const Flag&, CallBackFunc): the key of the stored Flag
addFlag(m, flag) ==
    LET name == flag._shortFlag \o flag._longFlag
    IN  IF name = <<>>
        THEN [m |-> [m EXCEPT !.flags =
                        IF <<>> \in DOMAIN @ THEN @
                        ELSE Put(@, <<>>, Flag(<<>>, <<>>))],
              ptr |-> <<>>]
        ELSE [m |-> [m EXCEPT
                        !.flags = Put(@, name, flag),
                        !.longFlags = IF flag._longFlag # <<>>
                                      THEN Put(@, flag._longFlag, name)
                                      ELSE @,
                        !.shortFlags = IF flag._shortFlag # <<>>
                                       THEN Put(@, flag._shortFlag, name)
                                       ELSE @],
              ptr |-> name]

\* a plausible slip: only the long names are searched
checkFlag_LongOnly(m, flagStr) ==
    flagStr \in DOMAIN m.longFlags

\* ArgParse::checkFlag
checkFlag(m, flagStr) ==
    flagStr \in DOMAIN m.longFlags \/ flagStr \in DOMAIN m.shortFlags

(***************************************************************************)
(* Indexed lookups.  Each yields the set of outcomes the build can         *)
(* produce: [m |-> the registry afterwards, ptr |-> the reference].        *)
(***************************************************************************)
\* *(table[flagStr]) for a registered flagStr
Deref(m, table, flagStr) ==
    IF table[flagStr] = NullPtr
    THEN {[m |-> Crashed(m), ptr |-> NullPtr], [m |-> m, ptr |-> Garbage]}
    ELSE {[m |-> m, ptr |-> table[flagStr]]}

\* return _flags[""]
WrongFlag(m) ==
    [m |-> [m EXCEPT !.flags = IF <<>> \in DOMAIN @ THEN @
                               ELSE Put(@, <<>>, Flag(<<>>, <<>>))],
     ptr |-> <<>>]

\* ArgParse::operator[](const std::string&)
lookupFlag(m, idx) ==
    LET type == mapParamType(idx)
        shortStr == IF type = ShortFlagsType THEN Prefix(idx, 2) ELSE idx
        longStr == IF type = LongFlagWithEqType
                   THEN Prefix(idx, Find(idx, "=") - 1) ELSE idx
    IN  IF mapParamTypeAsserts(idx)
        THEN {[m |-> Crashed(m), ptr |-> NullPtr]}
        ELSE IF type = ArgType
        THEN {[m |-> Crashed(m), ptr |-> NullPtr], WrongFlag(m)}
        ELSE IF type \in {ShortFlagsType, ShortFlagType}
        THEN IF shortStr \notin DOMAIN m.shortFlags
             THEN {addFlag(m, Flag(<<>>, shortStr))}
             ELSE Deref(m, m.shortFlags, shortStr)
        ELSE IF longStr \notin DOMAIN m.longFlags
             THEN {addFlag(m, Flag(longStr, <<>>))}
             ELSE Deref(m, m.longFlags, longStr)

\* ArgParse::operator[](const std::size_t&): _args[idx], unchecked
lookupArg(m, idx) ==
    IF idx < Len(m.args)
    THEN {[m |-> m, ptr |-> ArgRef]}
    ELSE {[m |-> Crashed(m), ptr |-> NullPtr], [m |-> m, ptr |-> Garbage]}

(***************************************************************************)
(* ArgParse::parse.  parseBegin is the code before the loop, parseStep one *)
(* iteration of the loop, parseEnd the code after it.                      *)
(***************************************************************************)
ErrorARGVEmpty ==
    [code |-> "ArgVIsEmpty", type |-> "GeneralType", suspect |-> NoSuspect]

\* addError(ErrorRequiredArgumentMissing, ..., &_args[idx])
ErrorRequiredArgumentMissing(idx) ==
    [code |-> "RequiredArgumentMissing", type |-> "ArgType", suspect |-> idx]

\* a char* const argv_[]: no array at all, or the array of its elements,
\* each a string or NullPtr
NoArray == [isNull |-> TRUE, at |-> <<>>]
Array(elems) == [isNull |-> FALSE, at |-> elems]

\* a plausible slip: the first element is not tested
argvIsEmpty_FirstUntested(argc_, argv_) ==
    argc_ < 1 \/ argv_.isNull

\* (argc_ < 1) || (!argv_) || (!argv_[0])
argvIsEmpty(argc_, argv_) ==
    argc_ < 1 \/ argv_.isNull \/ argv_.at[1] = NullPtr

\* the number of required positionals
RECURSIVE countRequired(_)
countRequired(as) ==
    IF as = <<>> THEN 0
    ELSE (IF as[1]._isArgNeeded THEN 1 ELSE 0) + countRequired(Tail(as))

parseBegin(m, argc_, argv_) ==
    IF argvIsEmpty(argc_, argv_)
    THEN [m EXCEPT !.errors = Append(@, ErrorARGVEmpty), !.result = "false"]
    ELSE [m EXCEPT
            !.programName = IF @ = <<>> THEN argv_.at[1] ELSE @,
            !.requiredArgs = countRequired(m.args),
            !.argv = SubSeq(argv_.at, 1, argc_),
            !.adv = 1,
            !.argCount = 0,
            !.result = "none",
            !.pc = "loop"]

\* case ParamType::ArgType
stepArg(m, paramStr) ==
    IF Len(m.args) > m.argCount
    THEN [m EXCEPT
            !.requiredArgs = IF m.args[m.argCount + 1]._isArgNeeded
                             THEN @ - 1 ELSE @,
            !.args[m.argCount + 1] = setArg(@, paramStr),
            !.any.definedArgs = TRUE,
            !.argCount = @ + 1]
    ELSE [m EXCEPT
            !.args = Append(@, Arg(<<>>, FALSE, Value(paramStr))),
            !.any.undefinedArgs = TRUE,
            !.argCount = @ + 1]

\* table[paramStr] of a std::map: an absent key is inserted with nullptr
Subscript(table, paramStr) ==
    IF paramStr \in DOMAIN table THEN table ELSE Put(table, paramStr, NullPtr)

\* a plausible slip: the flag found is not marked set
stepShortFlag_NotSet(m, paramStr) ==
    LET table == Subscript(m.shortFlags, paramStr)
        flag == table[paramStr]
        n == [m EXCEPT !.shortFlags = table]
    IN  IF flag = NullPtr
        THEN {Crashed(n), n}
        ELSE {n}

\* case ParamType::ShortFlagType
stepShortFlag(m, paramStr) ==
    LET table == Subscript(m.shortFlags, paramStr)
        flag == table[paramStr]
        n == [m EXCEPT !.shortFlags = table]
    IN  IF flag = NullPtr
        THEN {Crashed(n), n}
        ELSE {[n EXCEPT !.flags[flag].isSet = TRUE]}

\* a plausible slip: the first letter of the group is applied
stepShortFlags_FirstApplied(m, paramStr) ==
    stepShortFlag(m, Prefix(paramStr, 2))

\* case ParamType::ShortFlagsType: break
stepShortFlags(m, paramStr) == {m}

\* a plausible slip: an optional value is also tested against the flags
stepLongFlag_OptionalTestsFlag(m, paramStr, valueStr) ==
    LET known == paramStr \in DOMAIN m.longFlags
        m1 == IF known
              THEN [m EXCEPT !.any.definedFlags = TRUE]
              ELSE [addFlag(m, Flag(paramStr, <<>>)).m
                        EXCEPT !.any.undefinedFlags = TRUE]
        table == Subscript(m1.longFlags, paramStr)
        flag == table[paramStr]
        m2 == [m1 EXCEPT !.longFlags = table]
    IN  IF flag = NullPtr
        THEN {Crashed(m2), m2}
        ELSE
        LET m3 == [m2 EXCEPT !.flags[flag].isSet = TRUE]
            f == m3.flags[flag]
            bound == [m3 EXCEPT !.flags[flag].value.str = valueStr,
                                !.adv = @ + 1]
        IN  IF ~f.hasValue
            THEN {m3}
            ELSE IF valueStr = <<>> /\ ~f.value._isValueNeeded
            THEN {m3}
            ELSE IF mapParamTypeAsserts(valueStr)
            THEN {Crashed(m3), bound}
            ELSE IF mapParamType(valueStr) # ArgType /\ checkFlag(m3, valueStr)
            THEN {m3}
            ELSE {bound}

\* case ParamType::LongFlagWithEqType and LongFlagWithoutEqType, from the
\* lookup of paramStr on
stepLongFlag(m, paramStr, valueStr) ==
    LET known == paramStr \in DOMAIN m.longFlags
        m1 == IF known
              THEN [m EXCEPT !.any.definedFlags = TRUE]
              ELSE [addFlag(m, Flag(paramStr, <<>>)).m
                        EXCEPT !.any.undefinedFlags = TRUE]
        table == Subscript(m1.longFlags, paramStr)
        flag == table[paramStr]
        m2 == [m1 EXCEPT !.longFlags = table]
    IN  IF flag = NullPtr
        THEN {Crashed(m2), m2}
        ELSE
        LET m3 == [m2 EXCEPT !.flags[flag].isSet = TRUE]
            f == m3.flags[flag]
            bound == [m3 EXCEPT !.flags[flag].value.str = valueStr,
                                !.adv = @ + 1]
        IN  IF ~f.hasValue
            THEN {m3}
            ELSE IF valueStr = <<>> /\ ~f.value._isValueNeeded
            THEN {m3}
            ELSE IF ~f.value._isValueNeeded
            THEN {bound}
            ELSE IF mapParamTypeAsserts(valueStr)
            THEN {Crashed(m3), bound}
            ELSE IF mapParamType(valueStr) # ArgType /\ checkFlag(m3, valueStr)
            THEN {m3}
            ELSE {bound}

\* the body of the loop for the token at adv, then ++adv
parseStep(m) ==
    LET argc == Len(m.argv)
        paramStr == m.argv[m.adv + 1]
        valueStr == IF m.adv + 1 < argc THEN m.argv[m.adv + 2] ELSE <<>>
        type == mapParamType(paramStr)
        posEq == Find(paramStr, "=")
        n == [m EXCEPT !.tok = paramStr, !.shape = type]
        after ==
            IF type = ArgType THEN {stepArg(n, paramStr)}
            ELSE IF type = ShortFlagType THEN stepShortFlag(n, paramStr)
            ELSE IF type = ShortFlagsType THEN stepShortFlags(n, paramStr)
            ELSE IF type = LongFlagWithEqType
            THEN stepLongFlag(n, Prefix(paramStr, posEq - 1),
                              Suffix(paramStr, posEq))
            ELSE stepLongFlag(n, paramStr, valueStr)
    IN  IF mapParamTypeAsserts(paramStr)
        THEN {Crashed(m), [stepArg(n, paramStr) EXCEPT !.adv = @ + 1]}
        ELSE {IF a.pc = "crashed" THEN a ELSE [a EXCEPT !.adv = @ + 1]
              : a \in after}

\* addError for i = requiredArgs .. 1, each with &_args[_args.size() - i]
RECURSIVE missingErrors(_, _)
missingErrors(size, i) ==
    IF i = 0 THEN <<>>
    ELSE <<ErrorRequiredArgumentMissing(size - i)>>
             \o missingErrors(size, i - 1)

\* the locals of parse are gone once it has returned
Returned(m, res) ==
    [m EXCEPT !.pc = "idle", !.argv = <<>>, !.adv = 0, !.argCount = 0,
              !.requiredArgs = 0, !.tok = <<>>, !.shape = "none",
              !.result = res]

parseEnd(m) ==
    IF m.requiredArgs # 0
    THEN Returned([m EXCEPT !.errors =
                      @ \o missingErrors(Len(m.args), m.requiredArgs)],
                  "false")
    ELSE Returned(m, "true")

\* parse from the first iteration to its return (or to the crash)
RECURSIVE parseLoop(_)
parseLoop(m) ==
    IF m.pc # "loop" THEN {m}
    ELSE IF m.adv < Len(m.argv)
    THEN UNION {parseLoop(n) : n \in parseStep(m)}
    ELSE {parseEnd(m)}

\* ArgParse::parse(argc_, argv_): every state it can end in
parse(m, argc_, argv_) == parseLoop(parseBegin(m, argc_, argv_))

(***************************************************************************)
(* The inputs of the calls.                                                *)
(***************************************************************************)
ProgName == <<"p">>
LongX == <<"-", "-", "x">>
LongY == <<"-", "-", "y">>
ShortA == <<"-", "a">>
TokF == <<"f">>
TokAB == <<"-", "a", "b">>
TokXV == <<"-", "-", "x", "=", "v">>
TokXEmpty == <<"-", "-", "x", "=">>

\* the tokens of an argument vector: all non-empty
ParseTokens == {TokF, ShortA, TokAB, LongX, TokXV, LongY}

RECURSIVE TokenSeqs(_)
TokenSeqs(n) ==
    IF n = 0 THEN {<<>>}
    ELSE LET S == TokenSeqs(n - 1)
         IN  S \cup {Append(s, t) : s \in {u \in S : Len(u) = n - 1},
                                    t \in ParseTokens}

\* (argc_, argv_) of a call of parse: a program name and up to MaxTokens
\* tokens, or no token, no array, no first element
ParseInputs ==
    {<<Len(ts) + 1, Array(<<ProgName>> \o ts)>> : ts \in TokenSeqs(MaxTokens)}
        \cup {<<0, Array(<<ProgName>>)>>, <<0, NoArray>>, <<1, NoArray>>,
              <<1, Array(<<NullPtr>>)>>}

\* the flags declared: --x with a required value (no default), --x with
\* the short form -a, --y with the short form -a and an optional value
\* (default "d"), -a alone, and a flag with neither form
DefFlags ==
    {FlagWithValue(LongX, <<>>, Value(<<>>)),
     Flag(LongX, ShortA),
     FlagWithValue(LongY, ShortA, Value(<<"d">>)),
     Flag(<<>>, ShortA),
     Flag(<<>>, <<>>)}

DefArgs == {Arg(<<"n">>, isNeeded, Value(<<>>)) : isNeeded \in BOOLEAN}

LookupNames == {LongX, ShortA, TokAB, TokF, TokXV}

LookupIndexes == {0, 1}

(***************************************************************************)
(* The state machine.                                                      *)
(***************************************************************************)
Set(m) ==
    /\ _flags' = m.flags
    /\ _longFlags' = m.longFlags
    /\ _shortFlags' = m.shortFlags
    /\ _args' = m.args
    /\ _errors' = m.errors
    /\ programName' = m.programName
    /\ _areThereAny' = m.any
    /\ pc' = m.pc
    /\ argv' = m.argv
    /\ adv' = m.adv
    /\ argCount' = m.argCount
    /\ requiredArgs' = m.requiredArgs
    /\ tok' = m.tok
    /\ shape' = m.shape
    /\ result' = m.result

Init ==
    /\ _flags = Constructed.flags
    /\ _longFlags = Constructed.longFlags
    /\ _shortFlags = Constructed.shortFlags
    /\ _args = Constructed.args
    /\ _errors = Constructed.errors
    /\ programName = Constructed.programName
    /\ _areThereAny = Constructed.any
    /\ pc = Constructed.pc
    /\ argv = Constructed.argv
    /\ adv = Constructed.adv
    /\ argCount = Constructed.argCount
    /\ requiredArgs = Constructed.requiredArgs
    /\ tok = Constructed.tok
    /\ shape = Constructed.shape
    /\ result = Constructed.result
    /\ last = NoCall
    /\ ops = 0
    /\ given = 0

CanCall == pc = "idle" /\ ops < MaxOps

\* def(Arg) / add(Arg)
DefineArg ==
    /\ CanCall
    /\ \E arg \in DefArgs :
          LET r == addArg(Machine, arg)
          IN  /\ Set(r.m)
              /\ last' = [op |-> "addArg", name |-> <<>>, ptr |-> ArgRef,
                          idx |-> r.ptr, fresh |-> TRUE]
    /\ ops' = ops + 1
    /\ UNCHANGED given

\* def(Flag) / add(Flag)
DefineFlag ==
    /\ CanCall
    /\ \E flag \in DefFlags :
          LET r == addFlag(Machine, flag)
          IN  /\ Set(r.m)
              /\ last' = [op |-> "addFlag",
                          name |-> flag._shortFlag \o flag._longFlag,
                          ptr |-> r.ptr, idx |-> NoSuspect,
                          fresh |-> (r.ptr \notin DOMAIN _flags)]
    /\ ops' = ops + 1
    /\ UNCHANGED given

\* operator[](const std::string&)
LookupFlag ==
    /\ CanCall
    /\ \E name \in LookupNames :
          \E r \in lookupFlag(Machine, name) :
              /\ Set(r.m)
              /\ last' = [op |-> "lookupFlag", name |-> name, ptr |-> r.ptr,
                          idx |-> NoSuspect,
                          fresh |-> (/\ r.ptr \in DOMAIN r.m.flags
                                     /\ r.ptr \notin DOMAIN _flags)]
    /\ ops' = ops + 1
    /\ UNCHANGED given

\* operator[](const std::size_t&)
LookupArg ==
    /\ CanCall
    /\ \E i \in LookupIndexes :
          \E r \in lookupArg(Machine, i) :
              /\ Set(r.m)
              /\ last' = [op |-> "lookupArg", name |-> <<>>, ptr |-> r.ptr,
                          idx |-> i, fresh |-> FALSE]
    /\ ops' = ops + 1
    /\ UNCHANGED given

\* parse is called: the code before its loop
ParseBegin ==
    /\ CanCall
    /\ \E in \in ParseInputs :
          /\ given + in[1] - 1 <= MaxTokens
          /\ Set(parseBegin(Machine, in[1], in[2]))
          /\ given' = given + (IF in[1] < 1 THEN 0 ELSE in[1] - 1)
    /\ ops' = ops + 1
    /\ UNCHANGED last

\* one iteration of the loop of parse
ParseStep ==
    /\ pc = "loop"
    /\ adv < Len(argv)
    /\ \E m \in parseStep(Machine) : Set(m)
    /\ UNCHANGED <<last, ops, given>>

\* the loop of parse is over: the code after it
ParseEnd ==
    /\ pc = "loop"
    /\ adv >= Len(argv)
    /\ Set(parseEnd(Machine))
    /\ UNCHANGED <<last, ops, given>>

Next ==
    \/ DefineArg
    \/ DefineFlag
    \/ LookupFlag
    \/ LookupArg
    \/ ParseBegin
    \/ ParseStep
    \/ ParseEnd

Spec == Init /\ [][Next]_vars

(***************************************************************************)
(* The classifier on its own: one token, classified once.                  *)
(***************************************************************************)
InitClassify ==
    /\ _flags = Constructed.flags
    /\ _longFlags = Constructed.longFlags
    /\ _shortFlags = Constructed.shortFlags
    /\ _args = Constructed.args
    /\ _errors = Constructed.errors
    /\ programName = Constructed.programName
    /\ _areThereAny = Constructed.any
    /\ pc = Constructed.pc
    /\ argv = Constructed.argv
    /\ adv = Constructed.adv
    /\ argCount = Constructed.argCount
    /\ requiredArgs = Constructed.requiredArgs
    /\ tok \in ClassifierTokens
    /\ shape = "none"
    /\ result = Constructed.result
    /\ last = NoCall
    /\ ops = 0
    /\ given = 0

Classify ==
    /\ shape = "none"
    /\ ~mapParamTypeAsserts(tok)
    /\ shape' = mapParamType(tok)
    /\ UNCHANGED <<_flags, _longFlags, _shortFlags, _args, _errors,
                   programName, _areThereAny, pc, argv, adv, argCount,
                   requiredArgs, tok, last, result, ops, given>>

NextClassify == Classify

SpecClassify == InitClassify /\ [][NextClassify]_vars

(***************************************************************************)
(* C1.  Every non-empty token has exactly one of the five shapes, by the   *)
(* priority: Positional if its length is 1, or it does not start with '-', *)
(* or it is exactly "--"; ShortFlag if it starts with '-' and has length   *)
(* 2; CombinedShortFlags if it starts with '-' but not with "--" and is    *)
(* longer than 2; LongFlagWithValue if it starts with "--" and contains    *)
(* '='; LongFlagWithoutValue if it starts with "--" and contains no '='.   *)
(***************************************************************************)
StartsWith(t, p) == Len(t) >= Len(p) /\ SubSeq(t, 1, Len(p)) = p
Contains(t, c) == \E i \in 1 .. Len(t) : t[i] = c

C1_Shape(t) ==
    IF Len(t) = 1 \/ ~StartsWith(t, <<"-">>) \/ t = <<"-", "-">>
    THEN "Positional"
    ELSE IF StartsWith(t, <<"-">>) /\ Len(t) = 2
    THEN "ShortFlag"
    ELSE IF StartsWith(t, <<"-">>) /\ ~StartsWith(t, <<"-", "-">>) /\ Len(t) > 2
    THEN "CombinedShortFlags"
    ELSE IF StartsWith(t, <<"-", "-">>) /\ Contains(t, "=")
    THEN "LongFlagWithValue"
    ELSE IF StartsWith(t, <<"-", "-">>) /\ ~Contains(t, "=")
    THEN "LongFlagWithoutValue"
    ELSE "none"

C1_Name(type) ==
    CASE type = ArgType -> "Positional"
      [] type = ShortFlagType -> "ShortFlag"
      [] type = ShortFlagsType -> "CombinedShortFlags"
      [] type = LongFlagWithEqType -> "LongFlagWithValue"
      [] type = LongFlagWithoutEqType -> "LongFlagWithoutValue"
      [] OTHER -> "other"

C1_Classifier ==
    shape # "none" => shape \in ParamType /\ C1_Name(shape) = C1_Shape(tok)

\* the token "--" has been classified a positional
C1_Witness == tok = <<"-", "-">> /\ shape = ArgType

(***************************************************************************)
(* C5.  parse called with a token count below 1, no token array or no      *)
(* first token returns false and records one ArgVIsEmpty error before any  *)
(* classification; nothing else changes: the positionals, the flags, both  *)
(* lookup tables and the program name are as before.                       *)
(***************************************************************************)
C5_IsEmptyCall(in) == in[1] < 1 \/ in[2].isNull \/ in[2].at[1] = NullPtr

C5_EmptyArgv ==
    pc = "idle" =>
        \A in \in {i \in ParseInputs : C5_IsEmptyCall(i)} :
            \A n \in parse(Machine, in[1], in[2]) :
                /\ n.pc = "idle"
                /\ n.result = "false"
                /\ Len(n.errors) = Len(_errors) + 1
                /\ SubSeq(n.errors, 1, Len(_errors)) = _errors
                /\ n.errors[Len(n.errors)].code = "ArgVIsEmpty"
                /\ n.errors[Len(n.errors)].suspect = NoSuspect
                /\ n.args = _args
                /\ n.flags = _flags
                /\ n.longFlags = _longFlags
                /\ n.shortFlags = _shortFlags
                /\ n.programName = programName
                /\ n.any = _areThereAny
                /\ n.tok = tok /\ n.shape = shape

\* a registry with a flag and a positional has refused an empty argument
\* vector: the error is its only trace
C5_Witness ==
    /\ pc = "idle"
    /\ result = "false"
    /\ _errors # <<>>
    /\ _errors[Len(_errors)].code = "ArgVIsEmpty"
    /\ programName = <<>>
    /\ _args # <<>>
    /\ DOMAIN _longFlags # {}

(***************************************************************************)
(* What the claims speak of.                                               *)
(***************************************************************************)
\* the flag name a flag-shaped token or lookup string stands for
NameOf(t) ==
    CASE C1_Shape(t) = "CombinedShortFlags" -> SubSeq(t, 1, 2)
      [] C1_Shape(t) = "LongFlagWithValue" -> SubSeq(t, 1, Find(t, "=") - 1)
      [] OTHER -> t

\* the text after the first '=' of a token
InlineValue(t) == SubSeq(t, Find(t, "=") + 1, Len(t))

IsShortName(t) == C1_Shape(t) \in {"ShortFlag", "CombinedShortFlags"}
IsLongName(t) == C1_Shape(t) \in {"LongFlagWithValue", "LongFlagWithoutValue"}

\* the lookup table a name of that shape is resolved in
TableOf(m, t) == IF IsShortName(t) THEN m.shortFlags ELSE m.longFlags

\* the definition registered under a long name, or NullPtr
LongDef(m, name) ==
    IF name \in DOMAIN m.longFlags THEN m.longFlags[name] ELSE NullPtr

\* the loop of parse is about to process the token at the cursor
AtToken == pc = "loop" /\ adv < Len(argv)
Token == argv[adv + 1]

(***************************************************************************)
(* C2.  For a flag declared with a value, the token --name=v stores v      *)
(* (all that follows the first '=') as the flag's value text, sets isSet   *)
(* and consumes exactly one token: the token after it is left to the next  *)
(* step of the loop.  (Stated for a non-empty v.)                          *)
(***************************************************************************)
C2_InlineValueOneToken ==
    (/\ AtToken
     /\ C1_Shape(Token) = "LongFlagWithValue"
     /\ InlineValue(Token) # <<>>
     /\ LongDef(Machine, NameOf(Token)) # NullPtr
     /\ _flags[LongDef(Machine, NameOf(Token))].hasValue)
    => \A n \in parseStep(Machine) :
          LET def == n.flags[LongDef(Machine, NameOf(Token))]
          IN  /\ n.pc = "loop"
              /\ def.isSet
              /\ def.value.str = InlineValue(Token)
              /\ n.adv = adv + 1

(***************************************************************************)
(* C3.  For a flag declared with a required value, --name v (v non-empty,  *)
(* no registered flag) binds what --name=v binds, and for any tokens that  *)
(* follow, parsing [--name, v, rest...] and [--name=v, rest...] leaves the *)
(* registry (flags and positionals) in the same final state.               *)
(***************************************************************************)
C3_Value == <<"v">>

C3_Finals(name, form, rest) ==
    LET ts == (IF form = "space" THEN <<name, C3_Value>>
               ELSE <<name \o <<"=">> \o C3_Value>>) \o rest
    IN  {[members |-> Members(n), pc |-> n.pc, result |-> n.result] :
            n \in parse(Machine, Len(ts) + 1, Array(<<ProgName>> \o ts))}

C3_SpaceFormEqualsInlineForm ==
    pc = "idle" =>
        \A name \in {LongX, LongY} :
            (/\ LongDef(Machine, name) # NullPtr
             /\ _flags[LongDef(Machine, name)].hasValue
             /\ _flags[LongDef(Machine, name)].value._isValueNeeded)
            => \A rest \in TokenSeqs(1) :
                  C3_Finals(name, "space", rest) = C3_Finals(name, "inline", rest)

(***************************************************************************)
(* C4.  With N required positionals declared (mixed in any order with      *)
(* optional ones) and M < N positional tokens given, parse returns false   *)
(* and records exactly N - M RequiredArgumentMissing errors, each naming   *)
(* a distinct declared required positional that was left unbound.          *)
(***************************************************************************)
C4_Required == {i \in 1 .. Len(_args) : _args[i]._isArgNeeded}

C4_MissingRequiredPositionals ==
    pc = "idle" =>
        \A M \in 0 .. MaxTokens :
            M < Cardinality(C4_Required) =>
                \A n \in parse(Machine, M + 1,
                               Array(<<ProgName>> \o [i \in 1 .. M |-> TokF])) :
                    LET new == SubSeq(n.errors, Len(_errors) + 1, Len(n.errors))
                    IN  /\ n.pc = "idle"
                        /\ n.result = "false"
                        /\ Len(new) = Cardinality(C4_Required) - M
                        /\ \A i \in 1 .. Len(new) :
                              /\ new[i].code = "RequiredArgumentMissing"
                              /\ new[i].suspect + 1 \in C4_Required
                              /\ new[i].suspect >= M
                        /\ \A i, j \in 1 .. Len(new) :
                              i # j => new[i].suspect # new[j].suspect

(***************************************************************************)
(* C8.  Indexed lookups never fail: by position, the positional at that    *)
(* index, or the invalid sentinel when the index is out of range; by a     *)
(* name of no flag form ("f", "--"), the flag sentinel with both forms     *)
(* empty.  Neither aborts nor reads outside the positionals.               *)
(***************************************************************************)
C8_WrongArg == <<"WrongArg">>

C8_LookupsNeverFail ==
    pc = "idle" =>
        /\ \A i \in LookupIndexes :
              \A r \in lookupArg(Machine, i) :
                  /\ r.m.pc = "idle"
                  /\ r.ptr = IF i < Len(_args) THEN ArgRef ELSE C8_WrongArg
        /\ \A name \in {TokF, <<"-", "-">>} :
              \A r \in lookupFlag(Machine, name) :
                  /\ r.m.pc = "idle"
                  /\ r.ptr \in DOMAIN r.m.flags
                  /\ r.m.flags[r.ptr]._longFlag = <<>>
                  /\ r.m.flags[r.ptr]._shortFlag = <<>>

(***************************************************************************)
(* C9.  A declared long flag with a required value that comes with no      *)
(* value (it is the last token, or its inline value is empty) does not     *)
(* make parse fail: parse runs to completion, records no error for the     *)
(* flag, sets its isSet, leaves its value unset, and returns true when no  *)
(* required positional is missing.                                         *)
(***************************************************************************)
C9_NoValueGiven ==
    \/ C1_Shape(Token) = "LongFlagWithoutValue" /\ adv + 1 = Len(argv)
    \/ C1_Shape(Token) = "LongFlagWithValue" /\ InlineValue(Token) = <<>>

C9_MissingFlagValueTolerated ==
    (/\ AtToken
     /\ IsLongName(Token)
     /\ C9_NoValueGiven
     /\ LongDef(Machine, NameOf(Token)) # NullPtr
     /\ _flags[LongDef(Machine, NameOf(Token))].hasValue
     /\ _flags[LongDef(Machine, NameOf(Token))].value._isValueNeeded)
    => \A n \in parseLoop(Machine) :
          LET def == n.flags[LongDef(Machine, NameOf(Token))]
              new == SubSeq(n.errors, Len(_errors) + 1, Len(n.errors))
          IN  /\ n.pc = "idle"
              /\ \A i \in 1 .. Len(new) : new[i].type # "FlagType"
              /\ def.isSet
              /\ def.value.str = <<>>
              /\ (new = <<>> => n.result = "true")

(***************************************************************************)
(* C10.  No input is fatal: a ShortFlag token is resolved by its short     *)
(* form and sets isSet only if a definition is found; one whose short form *)
(* is not registered does not make parse access an absent definition, and  *)
(* no value token is consumed for a short flag.                            *)
(***************************************************************************)
C10_ShortFlagNeverFatal ==
    (AtToken /\ C1_Shape(Token) = "ShortFlag")
    => \A n \in parseStep(Machine) :
          /\ n.pc = "loop"
          /\ n.adv = adv + 1
          /\ IF Token \in DOMAIN _shortFlags /\ _shortFlags[Token] # NullPtr
             THEN n.flags[_shortFlags[Token]].isSet
             ELSE n.flags = _flags

(***************************************************************************)
(* C6.  Looking up an undefined flag name (long or short) returns a        *)
(* definition with isSet = FALSE and registers it under that name; when    *)
(* the loop of a later parse processes a token of that name, it sets isSet *)
(* of that very definition and creates no second definition for the name.  *)
(***************************************************************************)
\* the definitions that carry the name as their long or short form
C6_Named(m, name) ==
    {k \in DOMAIN m.flags :
        name \in {m.flags[k]._longFlag, m.flags[k]._shortFlag}}

\* the last call was a lookup of a flag name that registered a definition
C6_LookedUp ==
    /\ last.op = "lookupFlag"
    /\ last.fresh
    /\ IsShortName(last.name) \/ IsLongName(last.name)

C6_Lookup ==
    pc = "idle" =>
        \A name \in LookupNames :
            (/\ IsShortName(name) \/ IsLongName(name)
             /\ NameOf(name) \notin DOMAIN TableOf(Machine, name))
            => \A r \in lookupFlag(Machine, name) :
                  /\ r.m.pc = "idle"
                  /\ r.ptr \in DOMAIN r.m.flags
                  /\ r.ptr \notin DOMAIN _flags
                  /\ ~r.m.flags[r.ptr].isSet
                  /\ TableOf(r.m, name)[NameOf(name)] = r.ptr
                  /\ C6_Named(r.m, NameOf(name)) = {r.ptr}

C6_ParsedToken ==
    C6_LookedUp =>
        /\ NameOf(last.name) \in DOMAIN TableOf(Machine, last.name)
        /\ TableOf(Machine, last.name)[NameOf(last.name)] = last.ptr
        /\ C6_Named(Machine, NameOf(last.name)) = {last.ptr}
        /\ (/\ pc = "loop"
            /\ C1_Shape(tok) # "Positional"
            /\ C1_Shape(tok) # "CombinedShortFlags"
            /\ NameOf(tok) = NameOf(last.name))
           => _flags[last.ptr].isSet

C6_LookupThenParse == C6_Lookup /\ C6_ParsedToken

\* a short flag registered by a lookup has been set by the parse of its
\* token
C6_Witness ==
    /\ C6_LookedUp
    /\ last.name = ShortA
    /\ pc = "loop"
    /\ tok = ShortA
    /\ _flags[last.ptr].isSet
    /\ DOMAIN _flags = {last.ptr}

\* C6 as first stated: a parse whose input contains the name sets isSet
\* (inputs without inline values)
C6_InputContainsName ==
    (pc = "idle" /\ C6_LookedUp /\ last.ptr \in DOMAIN _flags) =>
        \A ts \in TokenSeqs(MaxTokens) :
            (/\ \E i \in 1 .. Len(ts) : ts[i] = NameOf(last.name)
             /\ \A i \in 1 .. Len(ts) : ts[i] \in {TokF, LongX, LongY, ShortA})
            => \A n \in parse(Machine, Len(ts) + 1, Array(<<ProgName>> \o ts)) :
                  n.pc = "idle" => n.flags[last.ptr].isSet

(***************************************************************************)
(* C7.  A flag looked up by each of its declared alias forms is the same   *)
(* entry, whichever alias is used, after any further define, lookup and    *)
(* parse operations on flags that declare none of its alias forms.         *)
(***************************************************************************)
C7_Aliases(f) == {f._longFlag, f._shortFlag} \ {<<>>}

C7_Found(alias) == {r.ptr : r \in lookupFlag(Machine, alias)}

\* no other definition declares one of the aliases of the definition at k
C7_AliasesOwn(k) ==
    \A k2 \in DOMAIN _flags \ {k} :
        C7_Aliases(_flags[k2]) \cap C7_Aliases(_flags[k]) = {}

C7_AliasesSameEntry ==
    pc = "idle" =>
        \A k \in DOMAIN _flags :
            C7_AliasesOwn(k) =>
                \A alias \in C7_Aliases(_flags[k]) :
                    /\ C7_Found(alias) = {k}
                    /\ \A r \in lookupFlag(Machine, alias) : r.m = Machine

\* a flag with both forms, after a parse that set a flag of another name
C7_Witness ==
    /\ pc = "idle"
    /\ result = "true"
    /\ ShortA \o LongX \in DOMAIN _flags
    /\ LongY \in DOMAIN _flags
    /\ _flags[LongY].isSet
    /\ C7_AliasesOwn(ShortA \o LongX)

\* C7 as first stated: the other flags are those of another long name
C7_AnyOtherFlag ==
    pc = "idle" =>
        \A k \in DOMAIN _flags :
            (\A k2 \in DOMAIN _flags \ {k} :
                /\ _flags[k2]._longFlag # <<>>
                /\ _flags[k2]._longFlag # _flags[k]._longFlag)
            => \A a1, a2 \in C7_Aliases(_flags[k]) : C7_Found(a1) = C7_Found(a2)

(***************************************************************************)
(* C11.  A CombinedShortFlags token is classified but not expanded: the    *)
(* step that processes it changes no flag definition, no positional, no    *)
(* lookup table and no error list entry, consumes exactly that one token,  *)
(* and parse returns what it returns without the token.                    *)
(***************************************************************************)
C11_CombinedNotExpanded ==
    (AtToken /\ C1_Shape(Token) = "CombinedShortFlags") =>
        /\ \A n \in parseStep(Machine) :
              /\ Members(n) = Members(Machine)
              /\ n.pc = "loop"
              /\ n.adv = adv + 1
              /\ n.argCount = argCount
              /\ n.requiredArgs = requiredArgs
        /\ parseLoop(Machine) = parseLoop([Machine EXCEPT !.adv = @ + 1])

\* the group -ab has been processed and the registered -a is still unset
C11_Witness ==
    /\ pc = "loop"
    /\ tok = TokAB
    /\ shape = ShortFlagsType
    /\ adv = 2
    /\ ShortA \in DOMAIN _shortFlags
    /\ _shortFlags[ShortA] \in DOMAIN _flags
    /\ ~_flags[_shortFlags[ShortA]].isSet

(***************************************************************************)
(* C12.  Within one parse the k-th Positional token of the input that is   *)
(* not consumed as a flag value binds its text into the k-th entry of the  *)
(* positional sequence, in declaration order; once every existing entry    *)
(* has been used, each further Positional token appends one new unnamed,   *)
(* optional positional holding the raw text.  Stated for inputs of         *)
(* Positional and inline-valued tokens, none of which is a flag value.     *)
(***************************************************************************)
\* the Positional tokens of an input, in order
RECURSIVE C12_Positionals(_)
C12_Positionals(ts) ==
    IF ts = <<>> THEN <<>>
    ELSE (IF C1_Shape(ts[1]) = "Positional" THEN <<ts[1]>> ELSE <<>>)
             \o C12_Positionals(Tail(ts))

C12_NoSpaceValues(ts) ==
    \A i \in 1 .. Len(ts) :
        C1_Shape(ts[i]) \in {"Positional", "LongFlagWithValue"}

C12_PositionalsInOrder ==
    pc = "idle" =>
        \A ts \in TokenSeqs(MaxTokens) :
            C12_NoSpaceValues(ts) =>
                \A n \in parse(Machine, Len(ts) + 1, Array(<<ProgName>> \o ts)) :
                    LET ps == C12_Positionals(ts)
                    IN  n.pc = "idle" =>
                          /\ Len(n.args) = IF Len(ps) > Len(_args)
                                           THEN Len(ps) ELSE Len(_args)
                          /\ \A k \in 1 .. Len(ps) :
                                IF k <= Len(_args)
                                THEN n.args[k] = setArg(_args[k], ps[k])
                                ELSE n.args[k] = Arg(<<>>, FALSE, Value(ps[k]))

(***************************************************************************)
(* C13.  For a declared long flag with a required value given as --name,   *)
(* a following token that is flag-shaped and is the alias of a registered  *)
(* flag is not consumed as the value: the first flag's value stays as it   *)
(* was, the cursor advances by one only, and the following token is        *)
(* processed as its own flag, whose isSet becomes true, in the next step.  *)
(***************************************************************************)
C13_Next == argv[adv + 2]

\* the token after the cursor is the alias of a registered flag
C13_NextIsRegistered ==
    /\ adv + 1 < Len(argv)
    /\ IsShortName(C13_Next) \/ IsLongName(C13_Next)
    /\ C13_Next \in DOMAIN TableOf(Machine, C13_Next)
    /\ TableOf(Machine, C13_Next)[C13_Next] # NullPtr

C13_FlagTokenNotConsumed ==
    (/\ AtToken
     /\ C1_Shape(Token) = "LongFlagWithoutValue"
     /\ LongDef(Machine, Token) # NullPtr
     /\ _flags[LongDef(Machine, Token)].hasValue
     /\ _flags[LongDef(Machine, Token)].value._isValueNeeded
     /\ C13_NextIsRegistered)
    => LET first == LongDef(Machine, Token)
           second == TableOf(Machine, C13_Next)[C13_Next]
       IN  \A n \in parseStep(Machine) :
              /\ n.pc = "loop"
              /\ n.adv = adv + 1
              /\ n.flags[first].isSet
              /\ n.flags[first].value = _flags[first].value
              /\ \A n2 \in parseStep(n) :
                    /\ n2.tok = C13_Next
                    /\ n2.flags[second].isSet

\* --x with a required value was followed by the registered -a: -a has been
\* processed as a flag and the value of --x is unset
C13_Witness ==
    /\ pc = "loop"
    /\ argv = <<ProgName, LongX, ShortA>>
    /\ adv = 3
    /\ tok = ShortA
    /\ LongX \in DOMAIN _flags
    /\ _flags[LongX].hasValue
    /\ _flags[LongX].value._isValueNeeded
    /\ _flags[LongX].isSet
    /\ _flags[LongX].value.str = <<>>
    /\ ShortA \in DOMAIN _flags
    /\ _flags[ShortA].isSet

(***************************************************************************)
(* C14.  After any sequence of define, lookup and parse operations, every  *)
(* entry of the by-long-name and by-short-name tables refers to a live     *)
(* definition of the owned collection whose long (respectively short) form *)
(* equals the key; a definition with both forms empty is reachable through *)
(* neither table and returned by no successful lookup, and defining a flag *)
(* with both forms empty registers no alias.                               *)
(***************************************************************************)
C14_BothEmpty(f) == f._longFlag = <<>> /\ f._shortFlag = <<>>

C14_LiveEntries ==
    /\ \A k \in DOMAIN _longFlags :
          /\ _longFlags[k] \in DOMAIN _flags
          /\ _flags[_longFlags[k]]._longFlag = k
    /\ \A k \in DOMAIN _shortFlags :
          /\ _shortFlags[k] \in DOMAIN _flags
          /\ _flags[_shortFlags[k]]._shortFlag = k

C14_SentinelApart ==
    /\ \A k \in DOMAIN _longFlags :
          _longFlags[k] \in DOMAIN _flags => ~C14_BothEmpty(_flags[_longFlags[k]])
    /\ \A k \in DOMAIN _shortFlags :
          _shortFlags[k] \in DOMAIN _flags => ~C14_BothEmpty(_flags[_shortFlags[k]])
    /\ \A name \in LookupNames :
          (IsShortName(name) \/ IsLongName(name)) =>
              \A r \in lookupFlag(Machine, name) :
                  r.ptr \in DOMAIN r.m.flags => ~C14_BothEmpty(r.m.flags[r.ptr])
    /\ LET r == addFlag(Machine, Flag(<<>>, <<>>))
       IN  /\ r.m.longFlags = _longFlags
           /\ r.m.shortFlags = _shortFlags
           /\ C14_BothEmpty(r.m.flags[r.ptr])

C14_TablesReferToDefinitions ==
    pc = "idle" => C14_LiveEntries /\ C14_SentinelApart

(***************************************************************************)
(* C15.  A declared long flag whose value is optional (declared with a     *)
(* non-empty default) and that is given as --name takes any non-empty      *)
(* following token as its value and skips it, even when that token is the  *)
(* alias of a registered flag, which is then not set; only an empty or     *)
(* absent following token leaves the default value in place.               *)
(***************************************************************************)
\* the registry at the cursor, with the rest of the input replaced
C15_Followed(by) == [Machine EXCEPT !.argv = SubSeq(argv, 1, adv + 1) \o by]

C15_OptionalValueAhead ==
    /\ AtToken
    /\ C1_Shape(Token) = "LongFlagWithoutValue"
    /\ LongDef(Machine, Token) # NullPtr
    /\ _flags[LongDef(Machine, Token)].hasValue
    /\ ~_flags[LongDef(Machine, Token)].value._isValueNeeded

C15_OptionalValueTakesNext ==
    C15_OptionalValueAhead =>
        LET def == LongDef(Machine, Token)
        IN  /\ \A v \in ParseTokens :
                  \A n \in parseStep(C15_Followed(<<v>>)) :
                      /\ n.pc = "loop"
                      /\ n.adv = adv + 2
                      /\ n.flags[def].isSet
                      /\ n.flags[def].value.str = v
                      /\ n.longFlags = _longFlags
                      /\ n.shortFlags = _shortFlags
                      /\ \A k \in DOMAIN _flags \ {def} : n.flags[k] = _flags[k]
            /\ \A by \in {<<>>, <<<<>>>>} :
                  \A n \in parseStep(C15_Followed(by)) :
                      /\ n.pc = "loop"
                      /\ n.adv = adv + 1
                      /\ n.flags[def].isSet
                      /\ n.flags[def].value = _flags[def].value

\* --y with the default d has taken the registered --x as its value, and
\* --x is not set
C15_Witness ==
    /\ pc = "loop"
    /\ argv = <<ProgName, LongY, LongX>>
    /\ adv = 3
    /\ tok = LongY
    /\ LongY \in DOMAIN _longFlags
    /\ _flags[_longFlags[LongY]].isSet
    /\ _flags[_longFlags[LongY]].value.str = LongX
    /\ LongX \in DOMAIN _longFlags
    /\ ~_flags[_longFlags[LongX]].isSet

====
